---- MODULE Spec2Model ----
(***************************************************************************)
(* kafkaignite: seven synthetic-data generators (bet, metric, advanced     *)
(* metric, pizza, random stock, real stock, user behaviour).  Each is a    *)
(* provider class with produce_msg() and a main() that loops               *)
(*     try: produce_msg(); log; sleep(uniform(1,5))                        *)
(*     except Exception: log critical; sleep(5)                            *)
(* The model has five parts:                                               *)
(*   Spec      - the main loop of each generator, with produce_msg of      *)
(*               every provider and the real-stock fetch (tenacity retry   *)
(*               around yahoo_fin with yfinance fallback) step by step;    *)
(*   SpecStock - StockProvider.stock_value / reshuffle_probs executed by   *)
(*               two callers on the module-level lists, statement by       *)
(*               statement;                                                *)
(*   SpecWalk  - stock_value applied repeatedly with the up-probabilities  *)
(*               drawn as inputs;                                          *)
(*   SpecFall  - stock_value applied repeatedly to one stock, long enough  *)
(*               for its value to cross zero;                              *)
(*   SpecBet   - UserBetsProvider.produce_msg called with arguments.       *)
(* Units: prices of the real-stock sources in thousandths, values of the   *)
(* random stocks in hundredths, probabilities and random.random() draws in *)
(* tenths, time in whole seconds, timestamps in milliseconds.              *)
(***************************************************************************)
EXTENDS Integers, Sequences, FiniteSets, TLC

VARIABLES
    \* ---- main loop (all generators)
    gen,            \* which generator's main() runs
    host, cpu,      \* MetricAdvancedProvider(args.host, args.cpu)
    pc,             \* position in main's while loop
    message, key,   \* the pair bound by "message, key = ...produce_msg()"
    outcome,        \* how the last produce_msg call ended: none/return/raise
    iterLog,        \* log levels emitted since the last render started
    sleeps,         \* time.sleep calls since the last render started
    failCount,      \* iterations whose try body raised
    critCount,      \* logger.critical calls
    walkSteps,      \* stock_value calls made by the random stock loop
    \* ---- RealStockProvider.produce_msg / stock_value
    rsName,         \* stock_name drawn by produce_msg
    attempt,        \* tenacity's attempt number
    primPlan,       \* what yahoo_fin would answer on attempt 1, 2, ...
    secOut,         \* what yfinance would answer
    primaryCalls,   \* si.get_live_price calls of this produce_msg
    secondaryCalls, \* yf.Ticker(...).history calls of this produce_msg
    waits,          \* tenacity wait_fixed sleeps of this produce_msg
    rsResult,       \* what stock_value handed to produce_msg
    \* ---- StockProvider module state and its callers
    StockCurrentValues,
    StockUpProb,
    tpc,            \* each caller's position
    tcall,          \* each caller's current call: op, stock index
    tcur,           \* each caller's local currentval
    tup,            \* each caller's local goesup
    tnext,          \* each caller's local nextval
    tcalls,         \* calls started by each caller
    applied,        \* per stock: sum of the steps of the finished stock_value calls
    tdraw,          \* each caller's random.random() of the goesup line
    \* ---- StockProvider.produce_msg
    render,         \* the draws and branches of the produce_msg that just returned
    \* ---- UserBetsProvider.produce_msg called with arguments
    argRisk,        \* risk_profile
    argOffset,      \* offset_seconds
    now             \* time.time() during the call

loopVars == <<gen, host, cpu, pc, message, key, outcome, iterLog, sleeps,
              failCount, critCount, walkSteps>>
fetchVars == <<rsName, attempt, primPlan, secOut, primaryCalls, secondaryCalls,
               waits, rsResult>>
stockVars == <<StockCurrentValues, StockUpProb>>
callerVars == <<tpc, tcall, tcur, tup, tnext, tcalls, applied, tdraw>>
betVars == <<argRisk, argOffset, now>>
vars == <<loopVars, fetchVars, stockVars, callerVars, render, betVars>>

----------------------------------------------------------------------------
\* Bounds of the model.

\* args.host and args.cpu range over -1..MaxHost and -1..MaxCpu.
MaxHost == 1
MaxCpu == 1
\* random.randint(1, max_pizzas_in_order) and randint(0, max_toppings_in_pizza)
\* are cut at these.
MaxPizzas == 1
MaxToppings == 1
\* The loop is followed for this many failing iterations.
MaxFail == 100
\* The random stock loop is followed for this many renders.
MaxRenders == 2
\* The callers of SpecStock make this many calls in all.
MaxCalls == 2
\* The caller of SpecWalk makes this many calls.
MaxWalk == 3
\* The caller of SpecFall makes this many calls.
MaxFall == 14

----------------------------------------------------------------------------
\* Helpers standing for Python built-ins.

Min(a, b) == IF a <= b THEN a ELSE b

\* {} : the empty dict.
EmptyDict == [f \in {} |-> f]

\* bool(d) for a dict.
Truthy(d) == DOMAIN d # {}

\* random.choice(pool): an element of the list; the model draws its first
\* and its last.
Choice(pool) == {pool[i] : i \in {1, Len(pool)}}

\* random.randint(a, b): a..b inclusive; the empty set stands for ValueError.
randint(a, b) == a..b

\* int(time.time() * 1000)
Millis(t) == t * 1000

\* time.time(), in seconds: two instants.
Clock == {1, 2}

\* What a call can do: return (message, key) or raise, having logged `log`.
Ret(m, k, lg) == [kind |-> "return", message |-> m, key |-> k, exc |-> "", log |-> lg]
Raise(e, lg) == [kind |-> "raise", message |-> EmptyDict, key |-> EmptyDict, exc |-> e, log |-> lg]

----------------------------------------------------------------------------
\* metric_provider.py

VALID_HOSTNAMES == <<"doc", "grumpy", "sleepy", "bashful", "happy", "sneezy", "dopey">>
VALID_CPUS == <<"cpu1", "cpu2", "cpu3", "cpu4", "cpu5">>

UsageLow == 70
UsageHigh == 100
\* round(random.uniform(70, 100), 2), in hundredths: the two ends of the range.
Usage == {UsageLow * 100, UsageHigh * 100}

MetricProduceMsg ==
    { Ret([hostname |-> h, cpu |-> c, usage |-> u, occurred_at |-> Millis(t)],
          [hostname |-> h], <<>>)
      : h \in Choice(VALID_HOSTNAMES), c \in Choice(VALID_CPUS), u \in Usage, t \in Clock }

----------------------------------------------------------------------------
\* metricadvancedproducer.py

\* f"hostname{random.randint(0, self.host)}"; empty when randint raises.
AdvHostname(h) == {"hostname" \o ToString(n) : n \in randint(0, h)}
\* f"cpu{random.randint(0, self.cpu)}"
AdvCpuId(c) == {"cpu" \o ToString(n) : n \in randint(0, c)}

\* (mutant) produce_msg without its try/except: the ValueError leaves it.
AdvOnErrorPropagates == Raise("ValueError", <<>>)

\* The except branch of produce_msg: logger.error, return {}, {}.
AdvOnError == Ret(EmptyDict, EmptyDict, <<"error">>)

\* produce_msg: hostname() is drawn first, then cpu_id(); either raising
\* ValueError lands in the method's own except branch.
MetricAdvancedProduceMsg(h, c) ==
    IF randint(0, h) = {} \/ randint(0, c) = {}
    THEN {AdvOnError}
    ELSE { Ret([hostname |-> hn, cpu |-> ci, usage |-> u, occurred_at |-> Millis(t)],
               [hostname |-> hn], <<"info">>)
           : hn \in AdvHostname(h), ci \in AdvCpuId(c), u \in Usage, t \in Clock }

----------------------------------------------------------------------------
\* bet_data_producer.py

MIN_AMOUNT == 2
MAX_AMOUNT == 1000

\* RISK_FACTORS.get(risk_profile, 0.5), in tenths.
RiskFactor(risk_profile) ==
    CASE risk_profile = "high_risk" -> 8
      [] risk_profile = "casual" -> 5
      [] risk_profile = "low_risk" -> 3
      [] OTHER -> 5

valid_usernames ==
    <<"nopineappleonpizza", "catanzaro99", "thedoctor", "bettingexpert01",
      "losingmoney66", "manutd007", "manutd009", "citylife1", "lysa_X", "aiventest">>

valid_events ==
    << [category |-> "Sport", subcategory |-> "Football", event |-> "ManUTD vs Chelsea"],
       [category |-> "Sport", subcategory |-> "Box", event |-> "Chicken Legs vs Power Kick"],
       [category |-> "Sport", subcategory |-> "Curling", event |-> "Italy vs England"],
       [category |-> "Sport", subcategory |-> "Netball", event |-> "Sydney vs Canberra"],
       [category |-> "Lottery", subcategory |-> "Bingo", event |-> "UK Bingo"],
       [category |-> "Lottery", subcategory |-> "WinForLife", event |-> "Win For Life America"],
       [category |-> "Event", subcategory |-> "Music", event |-> "Rick Astley #1 in World Charts"],
       [category |-> "Event", subcategory |-> "Politics", event |-> "Mickey Mouse new Italian President"],
       [category |-> "Event", subcategory |-> "Celebrities", event |-> "Donald Duck and Marge Simpson Wedding"] >>

\* round(random.uniform(MIN_AMOUNT, MAX_AMOUNT * risk_factor), 2), in
\* hundredths: the two ends of the range.
bet_amount(risk_profile) ==
    {MIN_AMOUNT * 100, MAX_AMOUNT * RiskFactor(risk_profile) * 10}

\* int((time.time() + offset_seconds) * 1000)
generate_timestamp(t, offset_seconds) == (t + offset_seconds) * 1000

\* (mutant) the key built from the event name alone.
dynamic_key_event_only(bet_event) == [event |-> bet_event.event]

dynamic_key(bet_event) ==
    [event |-> bet_event.event, category |-> bet_event.category,
     subcategory |-> bet_event.subcategory]

\* produce_msg calls self.generate_timestamp() with no argument: the offset
\* that reaches generate_timestamp is its default, 0.
BetProduceMsgAt(risk_profile, offset_seconds, t) ==
    { Ret([username |-> u,
           event |-> [category |-> e.category, subcategory |-> e.subcategory,
                      name |-> e.event],
           amount |-> a,
           timestamp |-> generate_timestamp(t, 0)],
          dynamic_key(e), <<>>)
      : u \in Choice(valid_usernames), e \in Choice(valid_events),
        a \in bet_amount(risk_profile) }

\* produce_msg at any time.time().
BetProduceMsg(risk_profile, offset_seconds) ==
    UNION {BetProduceMsgAt(risk_profile, offset_seconds, t) : t \in Clock}

----------------------------------------------------------------------------
\* pizza_producer.py

PIZZA_NAMES == <<"Margherita", "Marinara", "Diavola", "Mari & Monti", "Salami", "Peperoni">>
\* (the emoji that prefix the toppings in the source are left out)
TOPPINGS ==
    <<"tomato", "blue cheese", "egg", "green peppers", "hot pepper", "bacon",
      "olives", "garlic", "tuna", "onion", "pineapple", "strawberry", "banana">>
PIZZA_SHOPS ==
    <<"Mario's Pizza", "Luigi's Pizza", "Circular Pi Pizzeria",
      "I'll Make You a Pizza You Can't Refuse", "Mammamia Pizza",
      "It's-a me! Mario Pizza!">>

\* Defaults of produce_msg's parameters.
order_count == 1
max_pizzas_in_order == 5
max_toppings_in_pizza == 3

\* [f() for _ in range(n)] with n drawn from lo..hi.
ListsOf(S, lo, hi) == UNION {[1..n -> S] : n \in lo..hi}

Pizzas ==
    ListsOf([pizza_name : Choice(PIZZA_NAMES),
             additional_toppings :
                 ListsOf(Choice(TOPPINGS), 0, Min(max_toppings_in_pizza, MaxToppings))],
            1, Min(max_pizzas_in_order, MaxPizzas))

\* main never passes order_count: every order has id 1.  The Faker fields
\* (name, phone number, address) are each one opaque value.
PizzaProduceMsg ==
    { Ret([id |-> order_count, shop |-> s, name |-> "faker.name",
           phone_number |-> "faker.phone_number", address |-> "faker.address",
           pizzas |-> ps, timestamp |-> Millis(t)],
          [shop |-> s], <<>>)
      : s \in Choice(PIZZA_SHOPS), ps \in Pizzas, t \in Clock }

----------------------------------------------------------------------------
\* user_behaviour_pattern.py

user_ids == <<1, 2, 3, 4, 5, 6, 7, 8, 9>>
item_ids == <<21, 22, 23, 24, 25, 26, 27, 28, 29>>
behavior_names == <<"view", "cart", "buy">>
group_names == <<"A", "B">>
view_ids == <<111, 222, 555>>

\* generate_timestamp is declared @staticmethod with parameters
\* (self, offset_seconds=0): one positional argument is required.
UbTimestampRequiredArgs == 1
\* produce_msg calls self.generate_timestamp(): a staticmethod is not bound,
\* so no argument is passed.
UbTimestampPassedArgs == 0

\* datetime.fromtimestamp(ts).strftime(...): a string, here "T" and the second.
FormatLocal(ts) == "T" \o ToString(ts)

\* generate_timestamp as called with nargs positional arguments: TypeError
\* when the required one is missing, else the formatted local time
\* (time.time() + random.uniform(-5, 5) + offset_seconds).
UbGenerateTimestamp(nargs, t, jitter) ==
    IF nargs < UbTimestampRequiredArgs
    THEN [kind |-> "raise", exc |-> "TypeError", value |-> ""]
    ELSE [kind |-> "return", exc |-> "", value |-> FormatLocal(t + jitter)]

\* random.uniform(-5, 5): the two ends and the middle.
UbJitter == {-5, 0, 5}

\* produce_msg: the dict display evaluates its values in order, the
\* timestamp last; an exception there leaves produce_msg.
UserBehaviorProduceMsg ==
    { LET ts == UbGenerateTimestamp(UbTimestampPassedArgs, t, j)
      IN  IF ts.kind = "raise"
          THEN Raise(ts.exc, <<>>)
          ELSE Ret([user_id |-> u, item_id |-> i, behavior |-> b,
                    view_id |-> IF b = "view" THEN v ELSE 0,
                    group_name |-> g, occurred_at |-> ts.value],
                   [user |-> "all_users"], <<>>)
      : u \in Choice(user_ids), i \in Choice(item_ids), b \in Choice(behavior_names),
        v \in Choice(view_ids), g \in Choice(group_names), t \in Clock, j \in UbJitter }

----------------------------------------------------------------------------
\* real_stock_producer.py

STOCK_SYMBOLS ==
    <<"BTC-USD", "ETH-USD", "BNB-USD", "ADA-USD", "DOGE-USD", "SOL-USD",
      "XRP-USD", "LTC-USD", "DOT-USD">>

\* (mutant) the symbol handed on in lower case.
RealStockNameLower == {"btc-usd", "dot-usd"}

\* stock_name(): random.choice(STOCK_SYMBOLS)
RealStockName == Choice(STOCK_SYMBOLS)

\* @retry(stop=stop_after_attempt(15), wait=wait_fixed(2))
StopAfterAttempt == 15
WaitFixed == 2

\* return -0.1, in thousandths.
Sentinel == -100

\* The answers of the two sources are planned for MaxPlan attempts; later
\* attempts get the last planned answer.
MaxPlan == 2

\* Prices a source can answer, in thousandths: 1.5 and 12.346.
RawPrices == {1500, 12346}

\* Python's round(): x to the nearest multiple of m, ties to the even one.
RoundTo(x, m) ==
    LET q == x \div m
        r == x % m
    IN  IF 2 * r < m THEN q * m
        ELSE IF 2 * r > m THEN (q + 1) * m
        ELSE IF q % 2 = 0 THEN q * m ELSE (q + 1) * m

\* round(stock_value, 2)
Round2(x) == RoundTo(x, 10)
\* round(float(stock_value))
Round0(x) == RoundTo(x, 1000)

\* si.get_live_price(...): a price, None, "", or an exception.
PrimaryFailures == {"none", "empty", "ValueError", "KeyError", "OtherError"}
PrimaryOutcomes ==
    {[kind |-> "value", v |-> p] : p \in RawPrices}
    \cup {[kind |-> k, v |-> 0] : k \in PrimaryFailures}

\* stock.history(period='1d')['Close'].iloc[-1]: a price or an exception
\* (IndexError on an empty frame, a network error, ...).
SecondaryOutcomes ==
    {[kind |-> "value", v |-> p] : p \in RawPrices} \cup {[kind |-> "error", v |-> 0]}

\* The value bound to the message's stock_value: a float or a str.
StockVal(n) == [type |-> "float", num |-> n, text |-> ""]
DataUnavailable == [type |-> "str", num |-> 0, text |-> "Data Unavailable"]

\* (mutant) stock_value without its except clauses.
PrimaryRouteUncaught(p) ==
    CASE p.kind = "value" -> "return"
      [] OTHER -> "raise"

\* Where the body of stock_value goes on the primary's answer p:
\*   a price                      -> return round(stock_value, 2)
\*   None or ""                   -> raise ValueError, caught by
\*   ValueError, KeyError         -> except (ValueError, KeyError): fall back
\*   anything else                -> except Exception: return -0.1
PrimaryRoute(p) ==
    CASE p.kind = "value" -> "return"
      [] p.kind \in {"none", "empty", "ValueError", "KeyError"} -> "fallback"
      [] OTHER -> "sentinel"

\* (mutant) _fetch_from_yfinance without its try/except.
SecondaryRouteUncaught(s) ==
    CASE s.kind = "value" -> "return"
      [] OTHER -> "raise"

\* Where _fetch_from_yfinance goes on the secondary's answer s:
\*   a price -> return round(float(stock_value));  except Exception -> -0.1
SecondaryRoute(s) ==
    CASE s.kind = "value" -> "return"
      [] OTHER -> "sentinel"

\* tenacity around the body: a raise is retried until attempt 15, then
\* RetryError; a return ends the call.
RetryDecision(bodyKind, n) ==
    IF bodyKind = "raise"
    THEN IF n >= StopAfterAttempt THEN "retry_error" ELSE "retry"
    ELSE "done"

\* The primary's answer on attempt n.
PlannedPrimary(plan, n) == plan[Min(n, Len(plan))]

\* produce_msg: except RetryError: stock_value = "Data Unavailable"
RsMessageValue(res) ==
    IF res.kind = "retry_error" THEN DataUnavailable ELSE StockVal(res.value)

RsBuildMessage(name, res, t) ==
    Ret([stock_name |-> name, stock_value |-> RsMessageValue(res), timestamp |-> Millis(t)],
        [stock_name |-> name], <<>>)

NoResult == [kind |-> "none", value |-> 0]

----------------------------------------------------------------------------
\* random_stock_producer.py

StockNames ==
    <<"Deja Brew", "Jurassic Pork", "Lawn & Order", "Pita Pan", "Bread Pitt",
      "Indiana Jeans", "Thai Tanic">>
\* StockCurrentValues as the module is loaded, in hundredths.
InitialStockValues == <<1000, 2010, 2020, 1210, 2510, 2510, 2750>>
\* StockUpProb as the module is loaded, in tenths.
InitialStockUpProb == <<5, 6, 7, 8, 9, 4, 3>>
\* ShuffleProb = 0.2 and ChangeAmount = 0.8, in tenths.
ShuffleProb == 2
ChangeAmount == 8

\* random.random(), a float in [0, 1), in tenths: 0.0, 0.2, 0.9.
RandomDraws == {0, 2, 9}

\* StockNames.index(stockname): the first index holding the name.
IndexOf(seq, x) ==
    CHOOSE i \in 1..Len(seq) : seq[i] = x /\ \A j \in 1..(i - 1) : seq[j] # x

\* (mutant) the comparison the other way round.
GoesUpReversed(r, p) == IF r >= p THEN 1 ELSE -1

\* goesup = 1 if random.random() <= StockUpProb[indexStock] else -1
GoesUp(r, p) == IF r <= p THEN 1 ELSE -1

\* (mutant) the step taken twice.
NextValDoubled(currentval, r, goesup) == currentval + 2 * r * ChangeAmount * goesup

\* nextval = currentval + random.random() * ChangeAmount * goesup
\* (tenths times tenths: hundredths)
NextVal(currentval, r, goesup) == currentval + r * ChangeAmount * goesup

\* (mutant) the store lands one entry further.
StoreValueShifted(values, i, nextval) == [values EXCEPT ![(i % Len(values)) + 1] = nextval]

\* StockCurrentValues[indexStock] = nextval
StoreValue(values, i, nextval) == [values EXCEPT ![i] = nextval]

\* (mutant) the draw stored as a percentage.
StoreProbPercent(probs, i, r) == [probs EXCEPT ![i] = r * 10]

\* StockUpProb[indexStock] = random.random()
StoreProb(probs, i, r) == [probs EXCEPT ![i] = r]

\* if random.random() > ShuffleProb: self.reshuffle_probs(stockname)
ShouldReshuffle(r) == r > ShuffleProb

\* stock_value(stockname) run without interruption, with its two draws:
\* the new list of values.
StockValueAtomic(values, probs, name, rSign, rMag) ==
    LET i == IndexOf(StockNames, name)
    IN  StoreValue(values, i, NextVal(values[i], rMag, GoesUp(rSign, probs[i])))

\* reshuffle_probs(stockname) with its draw: the new list of probabilities.
ReshuffleProbs(probs, name, r) == StoreProb(probs, IndexOf(StockNames, name), r)

\* (mutant) stock_value returning the value it read.
StockValueReturnCurrent(values, probs, name, rSign, rMag) ==
    values[IndexOf(StockNames, name)]

\* stock_value(stockname) run without interruption, with its two draws:
\* the value it returns, nextval.
StockValueReturn(values, probs, name, rSign, rMag) ==
    LET i == IndexOf(StockNames, name)
    IN  NextVal(values[i], rMag, GoesUp(rSign, probs[i]))

\* Outside produce_msg.
NoRender == [name |-> "", trigger |-> 0, reshuffled |-> FALSE, sign |-> 0, goesup |-> 0]

\* produce_msg run without interruption: the pair it returns, the lists it
\* leaves and what it drew and did (the draw of the "if" line, whether
\* reshuffle_probs was called, the draw and the sign of the goesup line),
\* for every stock name, time and draws.
StockProduceMsg(values, probs) ==
    { LET i == IndexOf(StockNames, name)
          probs1 == IF ShouldReshuffle(r0) THEN ReshuffleProbs(probs, name, r1) ELSE probs
          values1 == StockValueAtomic(values, probs1, name, r2, r3)
      IN  [out |-> Ret([stock_name |-> name,
                        stock_value |-> StockValueReturn(values, probs1, name, r2, r3),
                        timestamp |-> Millis(t)],
                       [user |-> "all_users"], <<>>),
           values |-> values1, probs |-> probs1,
           locals |-> [name |-> name, trigger |-> r0, reshuffled |-> ShouldReshuffle(r0),
                       sign |-> r2, goesup |-> GoesUp(r2, probs1[i])]]
      : name \in Choice(StockNames), t \in Clock,
        r0 \in RandomDraws, r1 \in RandomDraws, r2 \in RandomDraws, r3 \in RandomDraws }

----------------------------------------------------------------------------
\* main(): the loop, the same in the seven files.

Generators ==
    {"bet", "metric", "metric_advanced", "pizza", "random_stock", "real_stock",
     "user_behaviour"}

\* time.sleep(random.uniform(1, 5)): the two ends of the interval.
SleepMin == 1
SleepMax == 5
\* time.sleep(5) in the except branch.
RecoveryDelay == 5

\* (mutant) no except clause: the exception leaves main.
AfterProduceUncaught(kind) == IF kind = "raise" THEN "exit" ELSE "log"

\* try: ... except Exception: where the loop goes when produce_msg ends.
AfterProduce(kind) == IF kind = "raise" THEN "except" ELSE "log"

\* (mutant) the except branch goes on without sleeping.
AfterCriticalNoSleep == "render"

\* The except branch after logger.critical: time.sleep(5).
AfterCritical == "backoff"

\* The levels the except branch logs.
ExceptLog == <<"critical">>

\* The sleep of the try body.
TrySleep == {[kind |-> "random", dur |-> d] : d \in {SleepMin, SleepMax}}
\* The sleep of the except branch.
ExceptSleep == [kind |-> "fixed", dur |-> RecoveryDelay]

\* The state before the first statement of a caller's call.
NoCall == [op |-> "none", name |-> "", i |-> 0]
Callers == {1, 2}

InitFetch ==
    /\ rsName = ""
    /\ attempt = 0
    /\ primPlan = <<>>
    /\ secOut = [kind |-> "error", v |-> 0]
    /\ primaryCalls = 0
    /\ secondaryCalls = 0
    /\ waits = 0
    /\ rsResult = NoResult

InitStockLists ==
    /\ StockCurrentValues = InitialStockValues
    /\ StockUpProb = InitialStockUpProb

InitCallers ==
    /\ tpc = [t \in Callers |-> "idle"]
    /\ tcall = [t \in Callers |-> NoCall]
    /\ tcur = [t \in Callers |-> 0]
    /\ tup = [t \in Callers |-> 0]
    /\ tnext = [t \in Callers |-> 0]
    /\ tcalls = 0
    /\ applied = [i \in 1..Len(StockNames) |-> 0]
    /\ tdraw = [t \in Callers |-> 0]

InitLoop ==
    /\ gen \in Generators
    /\ IF gen = "metric_advanced"
       THEN host \in -1..MaxHost /\ cpu \in -1..MaxCpu
       ELSE host = 0 /\ cpu = 0
    /\ pc = "render"
    /\ message = EmptyDict
    /\ key = EmptyDict
    /\ outcome = "none"
    /\ iterLog = <<>>
    /\ sleeps = <<>>
    /\ failCount = 0
    /\ critCount = 0
    /\ walkSteps = 0

\* main calls produce_msg() with no argument: the defaults.
InitBetDefaults ==
    /\ argRisk = "casual"
    /\ argOffset = 0
    /\ now = 0

InitExtras == render = NoRender /\ InitBetDefaults

Init == InitLoop /\ InitFetch /\ InitStockLists /\ InitCallers /\ InitExtras

\* "message, key = x.produce_msg()" ending as o, having logged lg.
EndRender(o, lg) ==
    /\ pc' = AfterProduce(o.kind)
    /\ message' = IF o.kind = "return" THEN o.message ELSE message
    /\ key' = IF o.kind = "return" THEN o.key ELSE key
    /\ outcome' = o.kind
    /\ iterLog' = lg \o o.log
    /\ sleeps' = <<>>
    /\ failCount' = IF o.kind = "raise" THEN failCount + 1 ELSE failCount
    /\ UNCHANGED <<gen, host, cpu, critCount>>

\* The loop is at "message, key = ..." of generator g.
AtRender(g) == pc = "render" /\ gen = g /\ failCount < MaxFail

RenderBet ==
    /\ AtRender("bet")
    /\ \E o \in BetProduceMsg("casual", 0) : EndRender(o, <<>>)
    /\ UNCHANGED <<walkSteps, fetchVars, stockVars, callerVars, render, betVars>>

RenderMetric ==
    /\ AtRender("metric")
    /\ \E o \in MetricProduceMsg : EndRender(o, <<>>)
    /\ UNCHANGED <<walkSteps, fetchVars, stockVars, callerVars, render, betVars>>

RenderMetricAdvanced ==
    /\ AtRender("metric_advanced")
    /\ \E o \in MetricAdvancedProduceMsg(host, cpu) : EndRender(o, <<>>)
    /\ UNCHANGED <<walkSteps, fetchVars, stockVars, callerVars, render, betVars>>

RenderPizza ==
    /\ AtRender("pizza")
    /\ \E o \in PizzaProduceMsg : EndRender(o, <<>>)
    /\ UNCHANGED <<walkSteps, fetchVars, stockVars, callerVars, render, betVars>>

RenderUserBehaviour ==
    /\ AtRender("user_behaviour")
    /\ \E o \in UserBehaviorProduceMsg : EndRender(o, <<>>)
    /\ UNCHANGED <<walkSteps, fetchVars, stockVars, callerVars, render, betVars>>

RenderRandomStock ==
    /\ AtRender("random_stock")
    /\ walkSteps < MaxRenders
    /\ \E s \in StockProduceMsg(StockCurrentValues, StockUpProb) :
          /\ EndRender(s.out, <<>>)
          /\ StockCurrentValues' = s.values
          /\ StockUpProb' = s.probs
          /\ render' = s.locals
    /\ walkSteps' = walkSteps + 1
    /\ UNCHANGED <<fetchVars, callerVars, betVars>>

\* RealStockProvider.produce_msg, first statements: stock_name(), then the
\* call of stock_value enters tenacity's first attempt.  What the two
\* sources would answer during this call is drawn here.
RsBegin ==
    /\ AtRender("real_stock")
    /\ rsName' \in RealStockName
    /\ primPlan' \in [1..MaxPlan -> PrimaryOutcomes]
    /\ secOut' \in SecondaryOutcomes
    /\ attempt' = 1
    /\ primaryCalls' = 0
    /\ secondaryCalls' = 0
    /\ waits' = 0
    /\ rsResult' = NoResult
    /\ pc' = "primary"
    /\ iterLog' = <<>>
    /\ sleeps' = <<>>
    /\ outcome' = "none"
    /\ UNCHANGED <<gen, host, cpu, message, key, failCount, critCount, walkSteps,
                   stockVars, callerVars, render, betVars>>

\* stock_value, the try body and its except clauses.
RsPrimary ==
    /\ pc = "primary"
    /\ primaryCalls' = primaryCalls + 1
    /\ LET p == PlannedPrimary(primPlan, attempt)
           r == PrimaryRoute(p)
       IN  CASE r = "return" ->
                  /\ rsResult' = [kind |-> "return", value |-> Round2(p.v)]
                  /\ pc' = "after_body"
                  /\ UNCHANGED iterLog
             [] r = "fallback" ->
                  /\ iterLog' = Append(iterLog, "warning")
                  /\ pc' = "secondary"
                  /\ UNCHANGED rsResult
             [] r = "sentinel" ->
                  /\ iterLog' = Append(iterLog, "warning")
                  /\ rsResult' = [kind |-> "return", value |-> Sentinel]
                  /\ pc' = "after_body"
             [] OTHER ->
                  /\ rsResult' = [kind |-> "raise", value |-> 0]
                  /\ pc' = "after_body"
                  /\ UNCHANGED iterLog
    /\ UNCHANGED <<gen, host, cpu, message, key, outcome, sleeps, failCount, critCount,
                   walkSteps, rsName, attempt, primPlan, secOut, secondaryCalls, waits,
                   stockVars, callerVars, render, betVars>>

\* _fetch_from_yfinance
RsSecondary ==
    /\ pc = "secondary"
    /\ secondaryCalls' = secondaryCalls + 1
    /\ LET r == SecondaryRoute(secOut)
       IN  CASE r = "return" ->
                  /\ rsResult' = [kind |-> "return", value |-> Round0(secOut.v)]
                  /\ UNCHANGED iterLog
             [] r = "sentinel" ->
                  /\ iterLog' = Append(iterLog, "warning")
                  /\ rsResult' = [kind |-> "return", value |-> Sentinel]
             [] OTHER ->
                  /\ rsResult' = [kind |-> "raise", value |-> 0]
                  /\ UNCHANGED iterLog
    /\ pc' = "after_body"
    /\ UNCHANGED <<gen, host, cpu, message, key, outcome, sleeps, failCount, critCount,
                   walkSteps, rsName, attempt, primPlan, secOut, primaryCalls, waits,
                   stockVars, callerVars, render, betVars>>

\* tenacity, after the body of stock_value returned or raised.
RsAfterBody ==
    /\ pc = "after_body"
    /\ LET d == RetryDecision(rsResult.kind, attempt)
       IN  CASE d = "retry" ->
                  /\ attempt' = attempt + 1
                  /\ waits' = waits + 1
                  /\ pc' = "primary"
                  /\ UNCHANGED rsResult
             [] d = "retry_error" ->
                  /\ rsResult' = [kind |-> "retry_error", value |-> 0]
                  /\ pc' = "build"
                  /\ UNCHANGED <<attempt, waits>>
             [] OTHER ->
                  /\ pc' = "build"
                  /\ UNCHANGED <<attempt, waits, rsResult>>
    /\ UNCHANGED <<gen, host, cpu, message, key, outcome, iterLog, sleeps, failCount,
                   critCount, walkSteps, rsName, primPlan, secOut, primaryCalls,
                   secondaryCalls, stockVars, callerVars, render, betVars>>

\* produce_msg, from "except RetryError" to "return message, key".
\* The locals of the call end with it.
RsBuild ==
    /\ pc = "build"
    /\ \E t \in Clock : EndRender(RsBuildMessage(rsName, rsResult, t), iterLog)
    /\ rsName' = ""
    /\ attempt' = 0
    /\ primPlan' = <<>>
    /\ secOut' = [kind |-> "error", v |-> 0]
    /\ primaryCalls' = 0
    /\ secondaryCalls' = 0
    /\ waits' = 0
    /\ rsResult' = NoResult
    /\ UNCHANGED <<walkSteps, stockVars, callerVars, render, betVars>>

\* if message: logger.info(...)
\* produce_msg has returned: its locals are gone.
LogSuccess ==
    /\ pc = "log"
    /\ iterLog' = IF Truthy(message) THEN Append(iterLog, "info") ELSE iterLog
    /\ pc' = "sleep"
    /\ render' = NoRender
    /\ UNCHANGED <<gen, host, cpu, message, key, outcome, sleeps, failCount, critCount,
                   walkSteps, fetchVars, stockVars, callerVars, betVars>>

\* time.sleep(random.uniform(1, 5))
Sleep ==
    /\ pc = "sleep"
    /\ \E sl \in TrySleep : sleeps' = Append(sleeps, sl)
    /\ pc' = "render"
    /\ UNCHANGED <<gen, host, cpu, message, key, outcome, iterLog, failCount, critCount,
                   walkSteps, fetchVars, stockVars, callerVars, render, betVars>>

\* except Exception as e: logger.critical(...)
Critical ==
    /\ pc = "except"
    /\ iterLog' = iterLog \o ExceptLog
    /\ critCount' = critCount + Len(SelectSeq(ExceptLog, LAMBDA l : l = "critical"))
    /\ pc' = AfterCritical
    /\ UNCHANGED <<gen, host, cpu, message, key, outcome, sleeps, failCount,
                   walkSteps, fetchVars, stockVars, callerVars, render, betVars>>

\* time.sleep(5)
Backoff ==
    /\ pc = "backoff"
    /\ sleeps' = Append(sleeps, ExceptSleep)
    /\ pc' = "render"
    /\ UNCHANGED <<gen, host, cpu, message, key, outcome, iterLog, failCount, critCount,
                   walkSteps, fetchVars, stockVars, callerVars, render, betVars>>

Next ==
    \/ RenderBet
    \/ RenderMetric
    \/ RenderMetricAdvanced
    \/ RenderPizza
    \/ RenderUserBehaviour
    \/ RenderRandomStock
    \/ RsBegin
    \/ RsPrimary
    \/ RsSecondary
    \/ RsAfterBody
    \/ RsBuild
    \/ LogSuccess
    \/ Sleep
    \/ Critical
    \/ Backoff

Spec == Init /\ [][Next]_vars

----------------------------------------------------------------------------
\* StockProvider.stock_value and reshuffle_probs, statement by statement, run
\* by the callers on the module-level lists StockCurrentValues, StockUpProb.

\* The call: indexStock = StockNames.index(stockname)
CallOf(op, name) == [op |-> op, name |-> name, i |-> IndexOf(StockNames, name)]

SvCall(t, max) ==
    /\ tpc[t] = "idle"
    /\ tcalls < max
    /\ \E name \in Choice(StockNames) : tcall' = [tcall EXCEPT ![t] = CallOf("stock_value", name)]
    /\ tpc' = [tpc EXCEPT ![t] = "read"]
    /\ tcalls' = tcalls + 1
    /\ UNCHANGED <<tcur, tup, tnext, applied, tdraw, stockVars>>

\* currentval = StockCurrentValues[indexStock]
SvRead(t) ==
    /\ tpc[t] = "read"
    /\ tcur' = [tcur EXCEPT ![t] = StockCurrentValues[tcall[t].i]]
    /\ tpc' = [tpc EXCEPT ![t] = "draw"]
    /\ UNCHANGED <<tcall, tup, tnext, tcalls, applied, tdraw, stockVars>>

\* goesup = ...; nextval = ...
SvDraw(t) ==
    /\ tpc[t] = "draw"
    /\ \E rSign \in RandomDraws, rMag \in RandomDraws :
          LET up == GoesUp(rSign, StockUpProb[tcall[t].i])
          IN  /\ tdraw' = [tdraw EXCEPT ![t] = rSign]
              /\ tup' = [tup EXCEPT ![t] = up]
              /\ tnext' = [tnext EXCEPT ![t] = NextVal(tcur[t], rMag, up)]
    /\ tpc' = [tpc EXCEPT ![t] = "write"]
    /\ UNCHANGED <<tcall, tcur, tcalls, applied, stockVars>>

\* StockCurrentValues[indexStock] = nextval; return nextval
SvWrite(t) ==
    /\ tpc[t] = "write"
    /\ StockCurrentValues' = StoreValue(StockCurrentValues, tcall[t].i, tnext[t])
    /\ applied' = [applied EXCEPT ![tcall[t].i] = @ + (tnext[t] - tcur[t])]
    /\ tpc' = [tpc EXCEPT ![t] = "idle"]
    /\ UNCHANGED <<tcall, tcur, tup, tnext, tcalls, tdraw, StockUpProb>>

RpCall(t) ==
    /\ tpc[t] = "idle"
    /\ tcalls < MaxCalls
    /\ \E name \in Choice(StockNames) : tcall' = [tcall EXCEPT ![t] = CallOf("reshuffle_probs", name)]
    /\ tpc' = [tpc EXCEPT ![t] = "shuffle"]
    /\ tcalls' = tcalls + 1
    /\ UNCHANGED <<tcur, tup, tnext, applied, tdraw, stockVars>>

\* StockUpProb[indexStock] = random.random()
RpWrite(t) ==
    /\ tpc[t] = "shuffle"
    /\ \E r \in RandomDraws : StockUpProb' = StoreProb(StockUpProb, tcall[t].i, r)
    /\ tpc' = [tpc EXCEPT ![t] = "idle"]
    /\ UNCHANGED <<tcall, tcur, tup, tnext, tcalls, applied, tdraw, StockCurrentValues>>

StockValueCall == \E t \in Callers : SvCall(t, MaxCalls) /\ UNCHANGED <<loopVars, fetchVars, render, betVars>>
StockValueRead == \E t \in Callers : SvRead(t) /\ UNCHANGED <<loopVars, fetchVars, render, betVars>>
StockValueDraw == \E t \in Callers : SvDraw(t) /\ UNCHANGED <<loopVars, fetchVars, render, betVars>>
StockValueWrite == \E t \in Callers : SvWrite(t) /\ UNCHANGED <<loopVars, fetchVars, render, betVars>>
ReshuffleCall == \E t \in Callers : RpCall(t) /\ UNCHANGED <<loopVars, fetchVars, render, betVars>>
ReshuffleWrite == \E t \in Callers : RpWrite(t) /\ UNCHANGED <<loopVars, fetchVars, render, betVars>>

\* No main loop runs in SpecStock and SpecWalk.
InitNoLoop ==
    /\ gen = "random_stock"
    /\ host = 0 /\ cpu = 0
    /\ pc = "none"
    /\ message = EmptyDict
    /\ key = EmptyDict
    /\ outcome = "none"
    /\ iterLog = <<>>
    /\ sleeps = <<>>
    /\ failCount = 0
    /\ critCount = 0
    /\ walkSteps = 0

InitStock == InitNoLoop /\ InitFetch /\ InitStockLists /\ InitCallers /\ InitExtras

NextStock ==
    \/ StockValueCall
    \/ StockValueRead
    \/ StockValueDraw
    \/ StockValueWrite
    \/ ReshuffleCall
    \/ ReshuffleWrite

SpecStock == InitStock /\ [][NextStock]_vars

\* Up-probabilities given as inputs, in tenths: 0.0, 0.5, 1.0.
ProbInputs == {0, 5, 10}

\* The stocks the model draws.
Modelled == {IndexOf(StockNames, n) : n \in Choice(StockNames)}

\* SpecWalk: one caller applies stock_value again and again; the
\* up-probabilities of the modelled stocks are inputs and stay as given.
InitWalk ==
    /\ InitNoLoop /\ InitFetch /\ InitCallers /\ InitExtras
    /\ StockCurrentValues = InitialStockValues
    /\ StockUpProb \in {pr \in [1..Len(StockNames) -> ProbInputs \cup {InitialStockUpProb[i] : i \in 1..Len(StockNames)}] :
                          \A i \in 1..Len(StockNames) :
                             IF i \in Modelled THEN pr[i] \in ProbInputs
                             ELSE pr[i] = InitialStockUpProb[i]}

WalkCall == SvCall(1, MaxWalk) /\ UNCHANGED <<loopVars, fetchVars, render, betVars>>
WalkRead == SvRead(1) /\ UNCHANGED <<loopVars, fetchVars, render, betVars>>
WalkDraw == SvDraw(1) /\ UNCHANGED <<loopVars, fetchVars, render, betVars>>
WalkWrite == SvWrite(1) /\ UNCHANGED <<loopVars, fetchVars, render, betVars>>

NextWalk == WalkCall \/ WalkRead \/ WalkDraw \/ WalkWrite

SpecWalk == InitWalk /\ [][NextWalk]_vars

\* SpecFall: one caller applies stock_value to the first stock again and
\* again; that stock's up-probability is an input.
InitFall ==
    /\ InitNoLoop /\ InitFetch /\ InitCallers /\ InitExtras
    /\ StockCurrentValues = InitialStockValues
    /\ \E p \in ProbInputs : StockUpProb = [InitialStockUpProb EXCEPT ![1] = p]

FallCall ==
    /\ tpc[1] = "idle"
    /\ tcalls < MaxFall
    /\ tcall' = [tcall EXCEPT ![1] = CallOf("stock_value", StockNames[1])]
    /\ tpc' = [tpc EXCEPT ![1] = "read"]
    /\ tcalls' = tcalls + 1
    /\ UNCHANGED <<tcur, tup, tnext, applied, tdraw, stockVars>>
    /\ UNCHANGED <<loopVars, fetchVars, render, betVars>>

FallRead == SvRead(1) /\ UNCHANGED <<loopVars, fetchVars, render, betVars>>
FallDraw == SvDraw(1) /\ UNCHANGED <<loopVars, fetchVars, render, betVars>>
FallWrite == SvWrite(1) /\ UNCHANGED <<loopVars, fetchVars, render, betVars>>

NextFall == FallCall \/ FallRead \/ FallDraw \/ FallWrite

SpecFall == InitFall /\ [][NextFall]_vars

\* SpecBet: UserBetsProvider.produce_msg(risk_profile, offset_seconds)
\* called with arguments.

\* risk_profile: the three keys of RISK_FACTORS and a name that is none.
RiskInputs == {"high_risk", "casual", "low_risk", "vip"}
\* offset_seconds: a minute back, none, a minute ahead.
OffsetInputs == {-60, 0, 60}

InitBet ==
    /\ gen = "bet"
    /\ host = 0 /\ cpu = 0
    /\ pc = "none"
    /\ message = EmptyDict
    /\ key = EmptyDict
    /\ outcome = "none"
    /\ iterLog = <<>>
    /\ sleeps = <<>>
    /\ failCount = 0
    /\ critCount = 0
    /\ walkSteps = 0
    /\ InitFetch /\ InitStockLists /\ InitCallers
    /\ render = NoRender
    /\ argRisk \in RiskInputs
    /\ argOffset \in OffsetInputs
    /\ now = 0

\* message, key = provider.produce_msg(argRisk, argOffset) at time.time() = t
BetCall ==
    /\ pc = "none" /\ gen = "bet"
    /\ \E t \in Clock :
          /\ now' = t
          /\ \E o \in BetProduceMsgAt(argRisk, argOffset, t) :
                /\ message' = o.message
                /\ key' = o.key
                /\ outcome' = o.kind
    /\ UNCHANGED <<gen, host, cpu, pc, iterLog, sleeps, failCount, critCount, walkSteps,
                   fetchVars, stockVars, callerVars, render, argRisk, argOffset>>

NextBet == BetCall

SpecBet == InitBet /\ [][NextBet]_vars

----------------------------------------------------------------------------
\* Properties.

\* Where main's loop, or the produce_msg it called, can be while it runs.
RunningPcs ==
    {"render", "primary", "secondary", "after_body", "build", "log", "sleep",
     "except", "backoff"}

\* An iteration has ended and the loop is back at the render step.
BackAtRender == pc = "render" /\ outcome # "none"

\* C1: an exception in an iteration never ends the loop: the loop is always
\* at one of its statements, a failing iteration goes to the except branch,
\* which logs one critical event and leads back to the render step, so that
\* at every render the critical events number the failed iterations.
C1_LoopSurvivesFailures ==
    /\ [](pc \in RunningPcs)
    /\ [](pc = "render" => critCount = failCount)
    /\ [][ /\ (failCount' # failCount => pc' = "except" /\ failCount' = failCount + 1)
           /\ (pc = "except" => critCount' = critCount + 1 /\ pc' = "backoff")
           /\ (pc = "backoff" => pc' = "render") ]_vars

\* C1 witness: an unbroken run of 100 failing iterations, each logged, and
\* the loop at its render step.
C1_Witness ==
    /\ gen = "user_behaviour" /\ pc = "render"
    /\ failCount >= 100 /\ critCount >= 100
    /\ outcome = "raise"

\* The render of the iteration just ended raised an exception, whether
\* produce_msg let it out or not.
RenderRaised ==
    \/ outcome = "raise"
    \/ gen = "metric_advanced" /\ (host < 0 \/ cpu < 0)

\* C2 as stated: whenever the render raised, the iteration logged critical
\* and slept the fixed 5 units, MetricAdvancedProvider included.
C2_Original ==
    (BackAtRender /\ RenderRaised) =>
        /\ iterLog = <<"critical">>
        /\ sleeps = <<ExceptSleep>>

\* C2 amended: an exception that leaves produce_msg is logged critical and
\* followed by the fixed 5-unit sleep; MetricAdvancedProvider with a negative
\* host or cpu bound catches its ValueError itself, logs an error, returns
\* ({}, {}), and the loop takes the randomized sleep without a critical log.
C2_Amended ==
    BackAtRender =>
        /\ outcome = "raise" =>
              /\ iterLog = <<"critical">>
              /\ sleeps = <<ExceptSleep>>
              /\ RecoveryDelay = 5
        /\ (gen = "metric_advanced" /\ (host < 0 \/ cpu < 0)) =>
              /\ outcome = "return"
              /\ message = EmptyDict /\ key = EmptyDict
              /\ iterLog = <<"error">>
              /\ sleeps \in {<<sl>> : sl \in TrySleep}

\* C2 witness: the advanced metric loop, built with a negative host bound,
\* is back at its render step after a randomized sleep shorter than 5.
C2_Witness ==
    /\ BackAtRender /\ gen = "metric_advanced" /\ host < 0
    /\ sleeps = <<[kind |-> "random", dur |-> SleepMin]>>

\* stock_value has returned to produce_msg (or tenacity gave up).
FetchDone == pc = "build"
\* The primary source failed on the first attempt.
PrimaryFailed == primPlan[1].kind # "value"

\* C3: whenever the primary fails, in any way, and the secondary would
\* answer V, the secondary is queried and the call returns V.
C3_FallbackReturnsV ==
    (FetchDone /\ PrimaryFailed /\ secOut.kind = "value") =>
        /\ secondaryCalls >= 1
        /\ rsResult = [kind |-> "return", value |-> secOut.v]

\* C4: no exception leaves the body of stock_value, stock_value or
\* produce_msg, and when both sources fail the call returns the sentinel -0.1.
C4_SentinelNoRaise ==
    /\ rsResult.kind \in {"none", "return"}
    /\ gen = "real_stock" => outcome # "raise"
    /\ (FetchDone /\ PrimaryFailed /\ secOut.kind = "error") =>
           rsResult = [kind |-> "return", value |-> Sentinel]

\* C4 witness: the primary raised ValueError, the secondary was queried and
\* failed too, and stock_value returned the sentinel.
C4_Witness ==
    /\ FetchDone /\ primPlan[1].kind = "ValueError" /\ secOut.kind = "error"
    /\ secondaryCalls = 1 /\ rsResult.value = Sentinel

\* C5: a failure of primary attempt n < 15 is followed, after the fixed
\* delay, by primary attempt n + 1, and the secondary is reached only from
\* the last attempt; so a primary failing on attempt 1 is queried again.
C5_RetriesPrimary ==
    /\ (FetchDone /\ PrimaryFailed) => (primaryCalls >= 2 /\ waits >= 1)
    /\ secondaryCalls >= 1 => attempt = StopAfterAttempt

\* C6 as stated: every field name of the key is a field name of the message.
C6_Original ==
    outcome = "return" => DOMAIN key \subseteq DOMAIN message

\* C6 amended: that holds for the metric, advanced metric, pizza and real
\* stock generators.  The bet key has the fields event, category and
\* subcategory, of which only event is a message field (the key's values are
\* the name, category and subcategory nested in the message's event).  The
\* random stock key is the constant {user: all_users}, no field of the
\* message; the user behaviour generator never returns a pair.
C6_Amended ==
    outcome = "return" =>
        CASE gen \in {"metric", "metric_advanced", "pizza", "real_stock"} ->
                DOMAIN key \subseteq DOMAIN message
          [] gen = "bet" ->
                /\ DOMAIN key = {"event", "category", "subcategory"}
                /\ DOMAIN key \cap DOMAIN message = {"event"}
                /\ key.event = message.event.name
                /\ key.category = message.event.category
                /\ key.subcategory = message.event.subcategory
          [] gen = "random_stock" ->
                /\ key = [user |-> "all_users"]
                /\ DOMAIN key \cap DOMAIN message = {}
          [] OTHER -> FALSE

\* C6 witness: the bet generator has returned a pair.
C6_Witness ==
    /\ gen = "bet" /\ pc = "log" /\ outcome = "return"
    /\ key.category = "Event"

\* No caller is inside a call.
AllIdle == \A t \in Callers : tpc[t] = "idle"

\* C7: once the callers' stock_value calls are over, every stock's value is
\* its initial value plus all the steps the calls computed.
C7_NoLostUpdate ==
    AllIdle =>
        \A i \in 1..Len(StockNames) :
            StockCurrentValues[i] = InitialStockValues[i] + applied[i]

\* Stock j's value or up-probability changes in this step.
StockChanged(j) ==
    \/ StockCurrentValues'[j] # StockCurrentValues[j]
    \/ StockUpProb'[j] # StockUpProb[j]

\* C8: a step changes the value or the up-probability of a stock only if it
\* is a step of a call naming that stock.
C8_OnlyNamedEntity ==
    [][ \A j \in 1..Len(StockNames) :
           StockChanged(j) =>
              \E t \in Callers : tpc'[t] # tpc[t] /\ tcall[t].name = StockNames[j] ]_vars

\* C8 witness: one caller stands before the store of its stock_value call
\* while the other caller's call on another stock has changed that stock.
C8_Witness ==
    \E t \in Callers, u \in Callers :
        /\ t # u /\ tpc[t] = "write" /\ tpc[u] = "idle"
        /\ tcall[u].op # "none" /\ tcall[u].name # tcall[t].name
        /\ \/ StockCurrentValues[tcall[u].i] # InitialStockValues[tcall[u].i]
           \/ StockUpProb[tcall[u].i] # InitialStockUpProb[tcall[u].i]
        /\ StockCurrentValues[tcall[t].i] = InitialStockValues[tcall[t].i]

\* C9: while a stock's up-probability is 1.0 (10 tenths), no step lowers
\* its value.
C9_MonotoneAtProbOne ==
    [][ \A i \in 1..Len(StockNames) :
           StockUpProb[i] = 10 => StockCurrentValues'[i] >= StockCurrentValues[i] ]_vars

\* C9 witness: three steps of one stock at up-probability 1.0 have raised
\* its value by more than two steps can.
C9_Witness ==
    /\ StockUpProb[1] = 10 /\ tcalls >= 3 /\ AllIdle
    /\ StockCurrentValues[1] > InitialStockValues[1] + 2 * 9 * ChangeAmount

\* C10: between two renders there is exactly one sleep: the randomized one
\* after an iteration whose try body completed, the fixed one after an
\* iteration that raised; while an iteration runs nothing has slept yet.
C10_OneSleepPerIteration ==
    /\ pc # "render" => sleeps = <<>>
    /\ BackAtRender =>
          /\ Len(sleeps) = 1
          /\ outcome = "return" =>
                /\ sleeps[1].kind = "random"
                /\ sleeps[1].dur \in SleepMin..SleepMax
          /\ outcome = "raise" => sleeps[1] = ExceptSleep

\* C10 witness: the metric loop is back at its render step after one
\* randomized sleep.
C10_Witness ==
    /\ gen = "metric" /\ BackAtRender
    /\ sleeps = <<[kind |-> "random", dur |-> SleepMin]>>

\* C11: every stored up-probability is in [0, 1] (0..10 tenths), and the
\* step of reshuffle_probs(name) that stores the new up-probability of the
\* named stock leaves every current value as it was.
C11_ReshuffleInRange ==
    /\ [](\A i \in 1..Len(StockNames) : StockUpProb[i] \in 0..10)
    /\ [][ \A t \in Callers :
              (tpc[t] = "shuffle" /\ tpc'[t] = "idle") =>
                  /\ StockUpProb'[tcall[t].i] \in 0..10
                  /\ StockCurrentValues' = StockCurrentValues ]_vars

\* C11 witness: a reshuffle_probs call is over, the named stock has a new
\* up-probability and the value it had.
C11_Witness ==
    \E t \in Callers :
        /\ tcall[t].op = "reshuffle_probs" /\ tpc[t] = "idle"
        /\ StockUpProb[tcall[t].i] # InitialStockUpProb[tcall[t].i]
        /\ StockCurrentValues[tcall[t].i] = InitialStockValues[tcall[t].i]

\* The names in a list.
Elements(pool) == {pool[i] : i \in 1..Len(pool)}

\* The random stock loop holds the pair of its last render.
RandomStockRendered == gen = "random_stock" /\ outcome = "return"

\* C12: the message of every random stock render has exactly the fields
\* stock_name, stock_value and timestamp, its stock_name is in StockNames,
\* and its stock_value is the value stored for that stock after the render;
\* the render's step starts from the value stored before it, and the values
\* of the other stocks stay.
C12_RandomStockMessage ==
    /\ [](RandomStockRendered =>
            /\ DOMAIN message = {"stock_name", "stock_value", "timestamp"}
            /\ message.stock_name \in Elements(StockNames)
            /\ message.stock_value =
                   StockCurrentValues[IndexOf(StockNames, message.stock_name)])
    /\ [][ (gen = "random_stock" /\ pc = "render" /\ pc' # "render") =>
              LET i == IndexOf(StockNames, message'.stock_name)
              IN  /\ \E r \in RandomDraws :
                        message'.stock_value =
                            NextVal(StockCurrentValues[i], r, render'.goesup)
                  /\ \A j \in 1..Len(StockNames) :
                        j # i => StockCurrentValues'[j] = StockCurrentValues[j] ]_vars

\* C12 witness: the second render of the loop has stepped the same stock
\* again: its message carries a value two steps above the initial one.
C12_Witness ==
    /\ RandomStockRendered /\ pc = "log" /\ walkSteps = 2
    /\ message.stock_name = StockNames[1]
    /\ message.stock_value = InitialStockValues[1] + 2 * 9 * ChangeAmount

\* C13: every field of a rendered message that is drawn from a pool is an
\* element of that pool: hostname and cpu (metric), username and event (bet;
\* the message's event is the drawn entry with its "event" field named
\* "name"), shop, pizza names and toppings (pizza), stock_name (random and
\* real stock).
C13_SampledFromPool ==
    outcome = "return" =>
        CASE gen = "metric" ->
                /\ message.hostname \in Elements(VALID_HOSTNAMES)
                /\ message.cpu \in Elements(VALID_CPUS)
          [] gen = "bet" ->
                /\ message.username \in Elements(valid_usernames)
                /\ \E e \in Elements(valid_events) :
                      message.event = [category |-> e.category,
                                       subcategory |-> e.subcategory, name |-> e.event]
          [] gen = "pizza" ->
                /\ message.shop \in Elements(PIZZA_SHOPS)
                /\ \A k \in 1..Len(message.pizzas) :
                      /\ message.pizzas[k].pizza_name \in Elements(PIZZA_NAMES)
                      /\ \A n \in 1..Len(message.pizzas[k].additional_toppings) :
                            message.pizzas[k].additional_toppings[n] \in Elements(TOPPINGS)
          [] gen = "random_stock" -> message.stock_name \in Elements(StockNames)
          [] gen = "real_stock" -> message.stock_name \in Elements(STOCK_SYMBOLS)
          [] OTHER -> TRUE

\* C13 witness: a pizza order whose first pizza has a topping, the last of
\* the list, from the last shop of the list.
C13_Witness ==
    /\ gen = "pizza" /\ outcome = "return" /\ pc = "log"
    /\ message.shop = PIZZA_SHOPS[Len(PIZZA_SHOPS)]
    /\ Len(message.pizzas[1].additional_toppings) >= 1
    /\ message.pizzas[1].additional_toppings[1] = TOPPINGS[Len(TOPPINGS)]

\* C14: every call of UserBehaviorProvider.produce_msg returns a pair and
\* does not raise, and the message carries occurred_at as a formatted local
\* time (so the loop goes on to log the message).
C14_UserBehaviourReturns ==
    (gen = "user_behaviour" /\ outcome # "none") =>
        /\ outcome = "return"
        /\ "occurred_at" \in DOMAIN message
        /\ \E t \in Clock, j \in UbJitter : message.occurred_at = FormatLocal(t + j)

\* C15: in a random stock render, reshuffle_probs is called on the drawn
\* stock exactly when the draw of the "if" line is at most ShuffleProb, and
\* the step that follows takes its sign from the up-probability stored after
\* that line.
C15_ReshuffleTrigger ==
    (RandomStockRendered /\ pc = "log") =>
        /\ render.reshuffled <=> (render.trigger <= ShuffleProb)
        /\ render.goesup =
               GoesUp(render.sign, StockUpProb[IndexOf(StockNames, render.name)])

\* C16: the store of a stock_value call changes the stock's value by at
\* most ChangeAmount (0.8, 80 hundredths), upwards when the draw of the
\* goesup line is at most the stock's up-probability and downwards when it
\* is above it, and the value returned (nextval) is the value stored.
C16_SignedBoundedStep ==
    [][ (tpc[1] = "write" /\ tpc'[1] = "idle") =>
          LET i == tcall[1].i
              d == StockCurrentValues'[i] - StockCurrentValues[i]
          IN  /\ d <= ChangeAmount * 10 /\ -d <= ChangeAmount * 10
              /\ tdraw[1] <= StockUpProb[i] => d >= 0
              /\ tdraw[1] > StockUpProb[i] => d <= 0
              /\ StockCurrentValues'[i] = tnext[1] ]_vars

\* C16 witness: no lower bound: after its downward steps the first stock's
\* value is below zero.
C16_Witness ==
    /\ AllIdle /\ tcall[1].op = "stock_value"
    /\ StockCurrentValues[1] < 0
    /\ tup[1] = -1 /\ tdraw[1] > StockUpProb[1]

\* C17: once MetricAdvancedProvider(host, cpu) renders messages, the
\* hostnames its renders can produce are exactly `host` in number, and the
\* cpu ids exactly `cpu`.
C17_NumberOfHosts ==
    (gen = "metric_advanced" /\ outcome = "return" /\ Truthy(message)) =>
        /\ Cardinality(AdvHostname(host)) = host
        /\ Cardinality(AdvCpuId(cpu)) = cpu

\* C18: the timestamp of the message of produce_msg(risk_profile,
\* offset_seconds) is the time of the call shifted by offset_seconds, in
\* milliseconds.
C18_HonoursOffset ==
    (gen = "bet" /\ pc = "none" /\ outcome = "return") =>
        message.timestamp = Millis(now + argOffset)

====
